---- MODULE Spec2Model ----
(***************************************************************************)
(* TalentFlow mini hiring platform: the optimistic mutation controllers    *)
(* of the candidate Kanban and of the jobs board, and the mock API         *)
(* handlers (MSW resolvers over a Dexie store) they talk to.               *)
(*                                                                         *)
(* The repository holds two builds of the user interface: the modular one  *)
(* (src/pages/*.jsx) and the single-file one (App.jsx).  The variable      *)
(* build selects one of them for a whole behaviour; the handlers are those *)
(* of src/api/handlers.js.                                                 *)
(***************************************************************************)
EXTENDS Integers, Sequences, FiniteSets, TLC

VARIABLES
  build,            \* "pages" (src/pages/*.jsx) or "single" (App.jsx)
  dbCandidates,     \* db.candidates: candidate id -> stored stage
  candidates,       \* CandidatesPage state: loaded candidate id -> stage
  isLoading,        \* CandidatesPage state isLoading
  activeCandidate,  \* CandidatesPage state: id of the dragged card, 0 = null
  stageCalls,       \* PATCH /candidates/:id calls issued by handleDragEnd
  session,          \* history: the current / latest drag session
  base,             \* history: view-state stages right after the load
  dbJobs,           \* db.jobs: job id -> stored record
  jobs,             \* JobsPage state: the rendered list of job records
  filters,          \* JobsPage state filters (status, page)
  pagination,       \* JobsPage state pagination (totalPages 0 = null)
  jobsLoading,      \* JobsPage state isLoading
  jobFetches,       \* GET /jobs calls in flight (their page argument)
  activeJob,        \* JobsPage state: id of the dragged job, 0 = null
  reorderCalls,     \* PATCH /jobs/reorder calls issued by handleDragEnd
  lastCall,         \* history: the latest request served by a resolver
  dbCandidateInfo,  \* db.candidates: candidate id -> stored name and email
  dbAssessments,    \* db.assessments: jobId -> stored assessment
  dbResponses,      \* db.assessmentResponses: the stored submissions
  lastOp,           \* history: the latest call answered by the worker
  listed,           \* history: the list calls answered since the last write
  postJobs          \* POST /jobs resolvers between their read and their add

kanbanVars == <<dbCandidates, candidates, isLoading, activeCandidate,
                stageCalls, session, base>>

jobsVars == <<dbJobs, jobs, filters, pagination, jobsLoading, jobFetches,
              activeJob, reorderCalls, lastCall>>

apiVars == <<dbCandidateInfo, dbAssessments, dbResponses, lastOp, listed,
             postJobs>>

vars == <<build, kanbanVars, jobsVars, apiVars>>

----------------------------------------------------------------------------
(* Bounds *)

NCandidates == 2   \* candidates in the store
NDropStages == 3   \* how many of the stages are used as seed / drop targets
NSeedStages == 2   \* how many of the stages the seeded candidates are in
MaxStageCalls == 2 \* stage-move calls issued in one behaviour
MaxSessions == 2   \* drag sessions started in one behaviour
NJobs == 12        \* jobs in the store of the jobs board
MaxDragIndex == 2  \* only the first rows of the window are dragged / dropped on
MaxReorderCalls == 2 \* reorder calls issued in one behaviour
NOpJobs == 2       \* jobs in the store when resolvers are called directly
MaxPayload == 2    \* length of an orderedJobs array
MaxOrderInput == 2 \* order values in request bodies are 0..MaxOrderInput
MaxOps == 2        \* calls answered in one behaviour of the worker
NQueryRecords == 3 \* jobs and candidates in the store that list calls read
MaxPageSize == 2   \* pageSize of list calls is 1..MaxPageSize
MaxPage == 2       \* page of list calls is 1..MaxPage
MaxPostJobs == 2   \* POST /jobs requests handled in one behaviour
MaxCreatedJobs == 1 \* jobs created from the jobs board in one behaviour

----------------------------------------------------------------------------
(* db.js constants *)

STAGE_IDS == <<"applied", "screen", "tech", "offer", "hired", "rejected">>

StageSet == {STAGE_IDS[i] : i \in 1..Len(STAGE_IDS)}

DropStages == {STAGE_IDS[i] : i \in 1..NDropStages}

SeedStages == {STAGE_IDS[i] : i \in 1..NSeedStages}

CandIds == 1..NCandidates

Builds == {"pages", "single"}

\* undefined / null container
None == "none"

----------------------------------------------------------------------------
(* Drag events: the id of the droppable under the pointer *)

NoOver == [kind |-> "null", stage |-> None, card |-> 0]

ColumnOver(s) == [kind |-> "column", stage |-> s, card |-> 0]

CardOver(c) == [kind |-> "card", stage |-> None, card |-> c]

\* an id that is neither a stage nor a loaded candidate
OtherOver == [kind |-> "other", stage |-> None, card |-> 0]

Overs == {NoOver, OtherOver} \cup {ColumnOver(s) : s \in DropStages}
           \cup {CardOver(c) : c \in CandIds}

\* findContainer(id), evaluated against the list cands
FindContainer(cands, over) ==
  IF over.kind = "column" THEN over.stage
  ELSE IF over.kind = "card" /\ over.card \in DOMAIN cands THEN cands[over.card]
  ELSE None

----------------------------------------------------------------------------
(* Values shared by the resolvers and the pages *)

\* parseInt of a path segment that is not a number
NaN == -1

\* a property that an object does not have
Undefined == -2

NoPagination == [page |-> 0, pageSize |-> 0, total |-> 0, totalPages |-> 0]

NoCall ==
  [via |-> "none", kind |-> "none", servedBy |-> "none", simulateError |-> FALSE,
   status |-> 0, message |-> "", body |-> << >>, before |-> << >>]

\* the jobs board is not mounted
JobsUnused ==
  /\ dbJobs = << >>
  /\ jobs = << >>
  /\ filters = [status |-> "all", page |-> 1]
  /\ pagination = NoPagination
  /\ jobsLoading = FALSE
  /\ jobFetches = {}
  /\ activeJob = 0
  /\ reorderCalls = << >>
  /\ lastCall = NoCall

NoOp ==
  [op |-> "none", args |-> << >>, simulateError |-> FALSE, status |-> 0,
   message |-> "", result |-> << >>, before |-> << >>, n |-> 0]

NoListed == [kind |-> "none", query |-> << >>, pages |-> << >>]

\* no call has been answered by the worker; only the tables a page reads hold
\* records
ApiUnused ==
  /\ dbCandidateInfo = << >>
  /\ dbAssessments = << >>
  /\ dbResponses = << >>
  /\ lastOp = NoOp
  /\ listed = NoListed
  /\ postJobs = << >>

----------------------------------------------------------------------------
(* Initial state: the page is mounted, the first fetch is in flight *)

NoSession ==
  [cand |-> 0, start |-> None, preview |-> None, ended |-> FALSE,
   source |-> None, target |-> None, callsAtStart |-> 0, call |-> 0, n |-> 0]

InitKanban ==
  /\ build \in Builds
  /\ dbCandidates \in [CandIds -> SeedStages]
  /\ candidates = << >>
  /\ isLoading = TRUE
  /\ activeCandidate = 0
  /\ stageCalls = << >>
  /\ session = NoSession
  /\ base = << >>
  /\ JobsUnused
  /\ ApiUnused

\* the candidates page is not mounted
KanbanUnused ==
  /\ dbCandidates = << >>
  /\ candidates = << >>
  /\ isLoading = FALSE
  /\ activeCandidate = 0
  /\ stageCalls = << >>
  /\ session = NoSession
  /\ base = << >>

\* fetchAllCandidates: GET /candidates?page=1&pageSize=1000 answers
FetchAllCandidates ==
  /\ isLoading
  /\ candidates' = dbCandidates
  /\ isLoading' = FALSE
  /\ base' = dbCandidates
  /\ UNCHANGED <<jobsVars, apiVars, build, dbCandidates, activeCandidate, stageCalls, session>>

\* handleDragStart
HandleDragStart(c) ==
  /\ ~isLoading
  /\ activeCandidate = 0
  /\ c \in DOMAIN candidates
  /\ session.n < MaxSessions
  /\ activeCandidate' = c
  /\ session' = [NoSession EXCEPT !.cand = c, !.start = candidates[c],
                                  !.n = session.n + 1,
                                  !.callsAtStart = Len(stageCalls)]
  /\ UNCHANGED <<jobsVars, apiVars, build, dbCandidates, candidates, isLoading, stageCalls, base>>

\* handleDragOver: the preview; it writes the stage into the candidate object
\* that the rendered list holds
HandleDragOver(over) ==
  /\ activeCandidate # 0
  /\ LET activeContainer == FindContainer(candidates, CardOver(activeCandidate))
         overContainer == FindContainer(candidates, over)
     IN IF \/ over.kind = "null"
           \/ activeContainer = None
           \/ overContainer = None
           \/ activeContainer = overContainer
        THEN UNCHANGED <<candidates, session>>
        ELSE /\ candidates' = [candidates EXCEPT ![activeCandidate] = overContainer]
             /\ session' = [session EXCEPT !.preview = overContainer]
  /\ UNCHANGED <<jobsVars, apiVars, build, dbCandidates, isLoading, activeCandidate, stageCalls, base>>

DropIsNoOp_m(oldStage, newStage) == FALSE

\* oldStage === newStage (pages), activeContainer === overContainer (single)
DropIsNoOp(oldStage, newStage) == oldStage = newStage

StageCall(c, oldStage, newStage) ==
  [cand |-> c, oldStage |-> oldStage, newStage |-> newStage, state |-> "sent"]

\* the optimistic update of handleDragEnd in the single-file build
ApplyStage(prev, c, newStage) ==
  [d \in DOMAIN prev |-> IF d = c THEN newStage ELSE prev[d]]

\* handleDragEnd up to the fetch
HandleDragEnd(over) ==
  /\ activeCandidate # 0
  /\ activeCandidate' = 0
  /\ LET c == activeCandidate
         oldStage == FindContainer(candidates, CardOver(c))
         newStage == FindContainer(candidates, over)
         ended == [session EXCEPT !.ended = TRUE, !.source = oldStage,
                                  !.target = newStage]
     IN IF \/ over.kind = "null"
           \/ newStage = None
           \/ oldStage = None
           \/ DropIsNoOp(oldStage, newStage)
        THEN /\ session' = ended
             /\ UNCHANGED <<candidates, stageCalls>>
        ELSE /\ Len(stageCalls) < MaxStageCalls
             /\ stageCalls' = Append(stageCalls, StageCall(c, oldStage, newStage))
             /\ session' = [ended EXCEPT !.call = Len(stageCalls) + 1]
             /\ candidates' = IF build = "single"
                              THEN ApplyStage(candidates, c, newStage)
                              ELSE candidates
  /\ UNCHANGED <<jobsVars, apiVars, build, dbCandidates, isLoading, base>>

\* db.candidates.update(id, updates) with updates = {stage}
UpdateCandidate(store, id, stage) ==
  IF id \in DOMAIN store THEN [store EXCEPT ![id] = stage] ELSE store

\* http.patch('/candidates/:id'): the resolver serves call i
PatchCandidateHandler(i, simulateError) ==
  /\ i \in DOMAIN stageCalls
  /\ stageCalls[i].state = "sent"
  /\ IF simulateError
     THEN /\ stageCalls' = [stageCalls EXCEPT ![i].state = "err"]
          /\ UNCHANGED dbCandidates
     ELSE /\ dbCandidates' = UpdateCandidate(dbCandidates, stageCalls[i].cand,
                                             stageCalls[i].newStage)
          /\ stageCalls' = [stageCalls EXCEPT ![i].state = "ok"]
  /\ UNCHANGED <<jobsVars, apiVars, build, candidates, isLoading, activeCandidate, session, base>>

RevertStage_m(prev, activeId, oldStage) ==
  [c \in DOMAIN prev |-> oldStage]

\* the catch block of handleDragEnd
RevertStage(prev, activeId, oldStage) ==
  [c \in DOMAIN prev |-> IF c = activeId THEN oldStage ELSE prev[c]]

ResolveStageCall_m(i) ==
  /\ i \in DOMAIN stageCalls
  /\ stageCalls[i].state = "ok"
  /\ stageCalls' = [stageCalls EXCEPT ![i].state = "committed"]
  /\ UNCHANGED <<jobsVars, apiVars, build, dbCandidates, candidates, isLoading, activeCandidate, session, base>>

\* handleDragEnd after the await: res.ok, or the catch block
ResolveStageCall(i) ==
  /\ i \in DOMAIN stageCalls
  /\ \/ /\ stageCalls[i].state = "ok"
        /\ stageCalls' = [stageCalls EXCEPT ![i].state = "committed"]
        /\ UNCHANGED candidates
     \/ /\ stageCalls[i].state = "err"
        /\ stageCalls' = [stageCalls EXCEPT ![i].state = "rolledback"]
        /\ candidates' = RevertStage(candidates, stageCalls[i].cand,
                                     stageCalls[i].oldStage)
  /\ UNCHANGED <<jobsVars, apiVars, build, dbCandidates, isLoading, activeCandidate, session, base>>

NextKanban ==
  \/ FetchAllCandidates
  \/ \E c \in CandIds : HandleDragStart(c)
  \/ \E over \in Overs : HandleDragOver(over)
  \/ \E over \in Overs : HandleDragEnd(over)
  \/ \E i \in 1..MaxStageCalls, e \in BOOLEAN : PatchCandidateHandler(i, e)
  \/ \E i \in 1..MaxStageCalls : ResolveStageCall(i)

SpecKanban == InitKanban /\ [][NextKanban]_vars

----------------------------------------------------------------------------
(* db.jobs and the Dexie calls the resolvers make *)

\* seedDatabase: the i-th job gets order i (counted from 0)
SeedJobs(n) == [id \in 1..n |-> [order |-> id - 1, status |-> "active"]]

\* ++id: the key of the next added record (records are never deleted)
AutoIncrement(table) == Cardinality(DOMAIN table) + 1

\* Table.put(record) under the key, Table.add(record) under a fresh key
PutRecord(table, key, record) ==
  [k \in DOMAIN table \cup {key} |-> IF k = key THEN record ELSE table[k]]

\* db.jobs.orderBy('order').last(): the order of the job that is last in the
\* order index, undefined for an empty table
LastByOrder(table) ==
  IF DOMAIN table = {} THEN Undefined
  ELSE LET last == CHOOSE x \in DOMAIN table : \A y \in DOMAIN table :
                     \/ table[y].order < table[x].order
                     \/ table[y].order = table[x].order /\ y <= x
       IN table[last].order

\* lastJob?.order || 0
OrZero(v) == IF v = Undefined \/ v = 0 THEN 0 ELSE v

JobWithDefaults_m(newJob, newOrder) == [newJob EXCEPT !.order = newOrder]

\* {...newJob, status: 'active', createdAt, order: newOrder}
JobWithDefaults(newJob, newOrder) ==
  [newJob EXCEPT !.status = "active", !.order = newOrder]

\* Table.update(key, changes) rejects for a key that is no valid key
KeyRejected(key) == key = Undefined \/ key = NaN

\* db.jobs.update(key, {order}) for a valid key: a missing key changes nothing
UpdateJob(store, key, order) ==
  IF key \in DOMAIN store THEN [store EXCEPT ![key].order = order] ELSE store

RECURSIVE BulkUpdate(_, _)
\* db.jobs.bulkUpdate([{key, changes}]): applied entry by entry, committed
BulkUpdate(store, updates) ==
  IF updates = << >> THEN store
  ELSE BulkUpdate(UpdateJob(store, Head(updates).key, Head(updates).changes.order),
                  Tail(updates))

\* u.id / u.order for an object u: undefined if u has no such property
Prop(u, name) == IF name \in DOMAIN u THEN u[name] ELSE Undefined

RECURSIVE UpdateEach(_, _)
UpdateEach(store, updates) ==
  IF updates = << >> THEN store
  ELSE UpdateEach(UpdateJob(store, Prop(Head(updates), "id"),
                            Prop(Head(updates), "order")),
                  Tail(updates))

\* db.transaction('rw', db.jobs, ...) around Promise.all(updates.map(u =>
\* db.jobs.update(u.id, {order: u.order}))): one rejected update aborts it
ReorderTransaction(store, updates) ==
  IF \E k \in DOMAIN updates : KeyRejected(Prop(updates[k], "id"))
  THEN [ok |-> FALSE, store |-> store]
  ELSE [ok |-> TRUE, store |-> UpdateEach(store, updates)]

----------------------------------------------------------------------------
(* Request bodies and the resolvers of src/api/handlers.js *)

ReorderBody(items) ==
  [kind |-> "orderedJobs", isArray |-> TRUE, items |-> items, order |-> 0]

\* {orderedJobs: x} with x not an array, or no orderedJobs at all
NotArrayBody ==
  [kind |-> "orderedJobs", isArray |-> FALSE, items |-> << >>, order |-> 0]

\* a body request.json() cannot parse
BadJsonBody ==
  [kind |-> "badjson", isArray |-> FALSE, items |-> << >>, order |-> 0]

\* {order: n}, the body of patch-job
PatchBody(n) ==
  [kind |-> "patch", isArray |-> FALSE, items |-> << >>, order |-> n]

Response(status, message, store) ==
  [status |-> status, message |-> message, store |-> store]

\* a resolver that throws: the worker answers the request with status 500
Unhandled(store) == Response(500, "unhandled exception", store)

\* a path segment of a request: a word or a number
Word(w) == [lit |-> w, num |-> NaN]

Num(n) == [lit |-> "", num |-> n]

\* parseInt(params.id, 10)
ParseInt(seg) == seg.num

\* http.patch('/jobs/:id')
PatchJobResolver(store, idSeg, body, simulateError) ==
  IF simulateError THEN Response(500, "Failed to save changes", store)
  ELSE LET id == ParseInt(idSeg)
       IN IF body.kind = "badjson" THEN Unhandled(store)
          ELSE IF KeyRejected(id) THEN Unhandled(store)
          ELSE IF body.kind = "patch"
               THEN Response(200, "", UpdateJob(store, id, body.order))
               ELSE Response(200, "", store)

\* orderedJobs.map(job => ({key: job.id, changes: {order: job.order}}))
ReorderUpdates(items) ==
  [k \in DOMAIN items |->
     [key |-> items[k].id, changes |-> [order |-> items[k].order]]]

\* http.patch('/jobs/reorder')
ReorderResolver(store, body, simulateError) ==
  IF simulateError THEN Response(500, "Failed to reorder jobs", store)
  ELSE IF body.kind = "badjson" THEN Response(400, "Invalid JSON payload", store)
  ELSE IF ~body.isArray \/ Len(body.items) = 0
       THEN Response(400, "Invalid payload for reordering", store)
  ELSE LET updates == ReorderUpdates(body.items)
           applied == BulkUpdate(store, updates)
       IN IF Len(updates) = 0
          THEN Response(400, "No valid updates provided", applied)
          ELSE LET t == ReorderTransaction(applied, updates)
               IN IF t.ok THEN Response(200, "ok", t.store)
                  ELSE Response(500, "Failed to reorder jobs (internal)", t.store)

\* the handlers array, in its order; ":id" and ":jobId" are path parameters
Handlers ==
  << [method |-> "GET", path |-> <<"jobs">>, name |-> "listJobs"],
     [method |-> "POST", path |-> <<"jobs">>, name |-> "createJob"],
     [method |-> "PATCH", path |-> <<"jobs", ":id">>, name |-> "patchJob"],
     [method |-> "PATCH", path |-> <<"jobs", "reorder">>, name |-> "reorderJobs"],
     [method |-> "GET", path |-> <<"candidates">>, name |-> "listCandidates"],
     [method |-> "POST", path |-> <<"candidates">>, name |-> "createCandidate"],
     [method |-> "PATCH", path |-> <<"candidates", ":id">>, name |-> "patchCandidate"],
     [method |-> "GET", path |-> <<"candidates", ":id", "timeline">>, name |-> "timeline"],
     [method |-> "GET", path |-> <<"assessments", ":jobId">>, name |-> "getAssessment"],
     [method |-> "PUT", path |-> <<"assessments", ":jobId">>, name |-> "putAssessment"],
     [method |-> "POST", path |-> <<"assessments", ":jobId", "submit">>,
      name |-> "submitAssessment"] >>

PathParams == {":id", ":jobId"}

\* the path pattern of a handler matches the path of a request
PathMatches(pattern, path) ==
  /\ Len(pattern) = Len(path)
  /\ \A k \in DOMAIN pattern : pattern[k] \in PathParams \/ pattern[k] = path[k].lit

\* the worker runs the first handler of the array that matches the request
Route(method, path) ==
  LET matching == {k \in DOMAIN Handlers :
                     /\ Handlers[k].method = method
                     /\ PathMatches(Handlers[k].path, path)}
  IN IF matching = {} THEN "bypass"
     ELSE Handlers[CHOOSE k \in matching : \A m \in matching : k <= m].name

\* the answer of the worker to PATCH path with the given body
ServePatch(store, path, body, simulateError) ==
  LET h == Route("PATCH", path)
  IN IF h = "patchJob" THEN PatchJobResolver(store, path[2], body, simulateError)
     ELSE IF h = "reorderJobs" THEN ReorderResolver(store, body, simulateError)
     ELSE Response(404, "bypass", store)

ReorderPath == <<Word("jobs"), Word("reorder")>>

JobPath(id) == <<Word("jobs"), Num(id)>>

----------------------------------------------------------------------------
(* The resolvers called with arbitrary bodies *)

OrderInputs == 0..MaxOrderInput

\* ids of request bodies: the stored jobs and one id that is not stored
IdInputs == 1..(NOpJobs + 1)

PayloadItems == [id : IdInputs, order : OrderInputs]

Payloads ==
  UNION {[1..n -> PayloadItems] : n \in 0..MaxPayload}

ReorderBodies ==
  {BadJsonBody, NotArrayBody} \cup {ReorderBody(items) : items \in Payloads}

\* the resolvers are those of src/api/handlers.js, the worker of the pages build
InitHandlers ==
  /\ build = "pages"
  /\ KanbanUnused
  /\ ApiUnused
  /\ dbJobs = SeedJobs(NOpJobs)
  /\ jobs = << >>
  /\ filters = [status |-> "all", page |-> 1]
  /\ pagination = NoPagination
  /\ jobsLoading = FALSE
  /\ jobFetches = {}
  /\ activeJob = 0
  /\ reorderCalls = << >>
  /\ lastCall = NoCall

Served(via, kind, servedBy, body, simulateError, r) ==
  [via |-> via, kind |-> kind, servedBy |-> servedBy,
   simulateError |-> simulateError, status |-> r.status, message |-> r.message,
   body |-> body, before |-> dbJobs]

\* fetch('/jobs/reorder', {method: 'PATCH', body}) answered by the worker
PatchReorderRequest(body, simulateError) ==
  LET r == ServePatch(dbJobs, ReorderPath, body, simulateError)
  IN /\ dbJobs' = r.store
     /\ lastCall' = Served("wire", "reorder", Route("PATCH", ReorderPath), body,
                           simulateError, r)
     /\ UNCHANGED <<build, kanbanVars, apiVars, jobs, filters, pagination, jobsLoading,
                    jobFetches, activeJob, reorderCalls>>

\* fetch(`/jobs/${id}`, {method: 'PATCH', body}) answered by the worker
PatchJobRequest(id, body, simulateError) ==
  LET r == ServePatch(dbJobs, JobPath(id), body, simulateError)
  IN /\ dbJobs' = r.store
     /\ lastCall' = Served("wire", "patch", Route("PATCH", JobPath(id)), body,
                           simulateError, r)
     /\ UNCHANGED <<build, kanbanVars, apiVars, jobs, filters, pagination, jobsLoading,
                    jobFetches, activeJob, reorderCalls>>

\* the resolver of http.patch('/jobs/reorder') run on a request
BulkReorderJobs(body, simulateError) ==
  LET r == ReorderResolver(dbJobs, body, simulateError)
  IN /\ dbJobs' = r.store
     /\ lastCall' = Served("resolver", "reorder", "reorderJobs", body,
                           simulateError, r)
     /\ UNCHANGED <<build, kanbanVars, apiVars, jobs, filters, pagination, jobsLoading,
                    jobFetches, activeJob, reorderCalls>>

NextHandlers ==
  \/ \E body \in ReorderBodies, e \in BOOLEAN : PatchReorderRequest(body, e)
  \/ \E id \in IdInputs, n \in OrderInputs, e \in BOOLEAN :
       PatchJobRequest(id, PatchBody(n), e)
  \/ \E body \in ReorderBodies, e \in BOOLEAN : BulkReorderJobs(body, e)

SpecHandlers == InitHandlers /\ [][NextHandlers]_vars

----------------------------------------------------------------------------
(* The jobs board: JobsPage *)

\* pageSize: 10 of fetchJobs, and the 10 of the order recalculation
PageSize == 10

Statuses == {"all", "active", "archived"}

JobView(store, id) ==
  [id |-> id, order |-> store[id].order, status |-> store[id].status]

RECURSIVE SortBy(_, _)
\* Collection.sortBy('order'): the records in primary-key order, sorted
\* stably by order
SortBy(store, ids) ==
  IF ids = {} THEN << >>
  ELSE LET first == CHOOSE x \in ids : \A y \in ids :
                      \/ store[x].order < store[y].order
                      \/ store[x].order = store[y].order /\ x <= y
       IN <<first>> \o SortBy(store, ids \ {first})

Slice_m(seq, from, to) ==
  LET lo == IF from > 0 THEN from - 1 ELSE 0
      hi == IF to < Len(seq) THEN to ELSE Len(seq)
  IN IF lo >= hi THEN << >> ELSE [k \in 1..(hi - lo) |-> seq[lo + k]]

\* res.slice(from, to) with 0-based from (inclusive) and to (exclusive)
Slice(seq, from, to) ==
  LET hi == IF to < Len(seq) THEN to ELSE Len(seq)
  IN IF from >= hi THEN << >> ELSE [k \in 1..(hi - from) |-> seq[from + k]]

\* Math.ceil(total / pageSize)
CeilDiv(total, pageSize) == (total + pageSize - 1) \div pageSize

\* http.get('/jobs') with an empty search and sort = order
ListJobs(store, status, page, pageSize) ==
  LET ids == {id \in DOMAIN store : status = "all" \/ store[id].status = status}
      sorted == SortBy(store, ids)
      total == Cardinality(ids)
      slice == Slice(sorted, (page - 1) * pageSize, page * pageSize)
  IN [jobs |-> [k \in DOMAIN slice |-> JobView(store, slice[k])],
      pagination |-> [page |-> page, pageSize |-> pageSize, total |-> total,
                      totalPages |-> CeilDiv(total, pageSize)]]

\* jobs.findIndex(j => j.id === id), 1-based; 0 stands for -1
FindIndex(list, id) ==
  IF \E k \in DOMAIN list : list[k].id = id
  THEN CHOOSE k \in DOMAIN list : list[k].id = id /\ \A m \in 1..(k - 1) : list[m].id # id
  ELSE 0

\* arrayMove(array, from, to) of @dnd-kit/sortable, 1-based indices
ArrayMove(array, from, to) ==
  LET without == [k \in 1..(Len(array) - 1) |->
                    IF k < from THEN array[k] ELSE array[k + 1]]
  IN [k \in 1..Len(array) |->
        IF k < to THEN without[k]
        ELSE IF k = to THEN array[from]
        ELSE without[k - 1]]

\* the order of the job at 0-based index: (filters.page - 1) * 10 + index in
\* the modular page, index in the single-file page
NewOrder(b, page, index) ==
  IF b = "pages" THEN (page - 1) * 10 + index ELSE index

WithOrder_m(b, page, array) ==
  [k \in DOMAIN array |-> [array[k] EXCEPT !.order = NewOrder(b, page, k - 1),
                                            !.status = "archived"]]

\* newJobsWithOrder
WithOrder(b, page, array) ==
  [k \in DOMAIN array |-> [array[k] EXCEPT !.order = NewOrder(b, page, k - 1)]]

\* apiPayload
ApiPayload(list) == [k \in DOMAIN list |-> [id |-> list[k].id, order |-> list[k].order]]

\* originalJobs = [...jobs]
OriginalJobs(list) == list

FetchOf(status, page) == [status |-> status, page |-> page]

InitReorder ==
  /\ build \in Builds
  /\ KanbanUnused
  /\ ApiUnused
  /\ dbJobs = SeedJobs(NJobs)
  /\ jobs = << >>
  /\ filters = [status |-> "all", page |-> 1]
  /\ pagination = NoPagination
  /\ jobsLoading = TRUE
  /\ jobFetches = {FetchOf("all", 1)}
  /\ activeJob = 0
  /\ reorderCalls = << >>
  /\ lastCall = NoCall

\* fetchJobs after the await: GET /jobs answers
FetchJobsDone(f) ==
  /\ f \in jobFetches
  /\ LET data == ListJobs(dbJobs, f.status, f.page, PageSize)
     IN /\ jobs' = data.jobs
        /\ pagination' = data.pagination
  /\ jobsLoading' = FALSE
  /\ jobFetches' = jobFetches \ {f}
  /\ UNCHANGED <<build, kanbanVars, apiVars, dbJobs, filters, activeJob, reorderCalls,
                 lastCall>>

\* Pagination onPageChange: setFilters, then the effect calls fetchJobs(page)
OnPageChange(p) ==
  /\ ~jobsLoading
  /\ activeJob = 0
  /\ p \in 1..pagination.totalPages
  /\ p # filters.page
  /\ filters' = [filters EXCEPT !.page = p]
  /\ jobsLoading' = TRUE
  /\ jobFetches' = jobFetches \cup {FetchOf(filters.status, p)}
  /\ UNCHANGED <<build, kanbanVars, apiVars, dbJobs, jobs, pagination, activeJob,
                 reorderCalls, lastCall>>

\* JobFormModal, opened on a loaded board: POST /jobs answered 201, then
\* onJobCreated calls fetchJobs(1) and leaves filters as they are
OnJobCreated ==
  /\ ~jobsLoading
  /\ activeJob = 0
  /\ Cardinality(DOMAIN dbJobs) < NJobs + MaxCreatedJobs
  /\ dbJobs' = PutRecord(dbJobs, AutoIncrement(dbJobs),
                         JobWithDefaults([order |-> Undefined, status |-> None],
                                         OrZero(LastByOrder(dbJobs)) + 1))
  /\ jobsLoading' = TRUE
  /\ jobFetches' = jobFetches \cup {FetchOf(filters.status, 1)}
  /\ UNCHANGED <<build, kanbanVars, apiVars, jobs, filters, pagination, activeJob,
                 reorderCalls, lastCall>>

\* handleDragStart
HandleDragStartJob(id) ==
  /\ ~jobsLoading
  /\ activeJob = 0
  /\ FindIndex(jobs, id) \in 1..MaxDragIndex
  /\ activeJob' = id
  /\ UNCHANGED <<build, kanbanVars, apiVars, dbJobs, jobs, filters, pagination,
                 jobsLoading, jobFetches, reorderCalls, lastCall>>

ReorderCall(payload, originalJobs, page) ==
  [payload |-> payload, originalJobs |-> originalJobs, state |-> "sent",
   before |-> jobs, page |-> page, trialPassed |-> FALSE, servedBy |-> "none"]

\* handleDragEnd up to the fetch; over = 0 stands for null
HandleDragEndJob(over) ==
  /\ activeJob # 0
  /\ over = 0 \/ FindIndex(jobs, over) \in 1..MaxDragIndex
  /\ activeJob' = 0
  /\ IF over # 0 /\ activeJob # over
     THEN LET oldIndex == FindIndex(jobs, activeJob)
              newIndex == FindIndex(jobs, over)
              newJobsArray == ArrayMove(jobs, oldIndex, newIndex)
              newJobsWithOrder == WithOrder(build, filters.page, newJobsArray)
          IN /\ oldIndex # 0
             /\ Len(reorderCalls) < MaxReorderCalls
             /\ jobs' = newJobsWithOrder
             /\ reorderCalls' = Append(reorderCalls,
                  ReorderCall(ApiPayload(newJobsWithOrder), OriginalJobs(jobs),
                              filters.page))
     ELSE UNCHANGED <<jobs, reorderCalls>>
  /\ UNCHANGED <<build, kanbanVars, apiVars, dbJobs, filters, pagination, jobsLoading,
                 jobFetches, lastCall>>

\* the worker answers the PATCH /jobs/reorder of call i
ServeReorderCall(i, simulateError) ==
  /\ i \in DOMAIN reorderCalls
  /\ reorderCalls[i].state = "sent"
  /\ LET body == ReorderBody(reorderCalls[i].payload)
         r == ServePatch(dbJobs, ReorderPath, body, simulateError)
     IN /\ dbJobs' = r.store
        /\ reorderCalls' = [reorderCalls EXCEPT
              ![i].state = IF r.status = 200 THEN "ok" ELSE "err",
              ![i].trialPassed = ~simulateError,
              ![i].servedBy = Route("PATCH", ReorderPath)]
  /\ UNCHANGED <<build, kanbanVars, apiVars, jobs, filters, pagination, jobsLoading,
                 jobFetches, activeJob, lastCall>>

RestoreJobs_m(current, originalJobs) == current

\* setJobs(originalJobs) of the catch block
RestoreJobs(current, originalJobs) == originalJobs

\* handleDragEnd after the await: res.ok, or the catch block
ResolveReorderCall(i) ==
  /\ i \in DOMAIN reorderCalls
  /\ \/ /\ reorderCalls[i].state = "ok"
        /\ reorderCalls' = [reorderCalls EXCEPT ![i].state = "committed"]
        /\ UNCHANGED jobs
     \/ /\ reorderCalls[i].state = "err"
        /\ reorderCalls' = [reorderCalls EXCEPT ![i].state = "rolledback"]
        /\ jobs' = RestoreJobs(jobs, reorderCalls[i].originalJobs)
  /\ UNCHANGED <<build, kanbanVars, apiVars, dbJobs, filters, pagination, jobsLoading,
                 jobFetches, activeJob, lastCall>>

NextReorder ==
  \/ \E f \in jobFetches : FetchJobsDone(f)
  \/ \E p \in 1..CeilDiv(NJobs, PageSize) : OnPageChange(p)
  \/ \E id \in 1..NJobs : HandleDragStartJob(id)
  \/ \E over \in 0..NJobs : HandleDragEndJob(over)
  \/ \E i \in 1..MaxReorderCalls, e \in BOOLEAN : ServeReorderCall(i, e)
  \/ \E i \in 1..MaxReorderCalls : ResolveReorderCall(i)

SpecReorder == InitReorder /\ [][NextReorder]_vars

\* the jobs board with its create-job dialog
NextBoard ==
  \/ NextReorder
  \/ OnJobCreated

SpecBoard == InitReorder /\ [][NextBoard]_vars

\* the resolver of http.patch('/jobs/reorder') run on the request of call i,
\* which is in flight, with a passing failure trial
RunReorderResolver(i) ==
  /\ i \in DOMAIN reorderCalls
  /\ reorderCalls[i].state = "sent"
  /\ dbJobs' = ReorderResolver(dbJobs, ReorderBody(reorderCalls[i].payload),
                               FALSE).store
  /\ UNCHANGED <<build, kanbanVars, apiVars, jobs, filters, pagination, jobsLoading,
                 jobFetches, activeJob, reorderCalls, lastCall>>

\* the jobs board, and the reorder resolver run on the requests it sends
NextFrame ==
  \/ NextReorder
  \/ \E i \in 1..MaxReorderCalls : RunReorderResolver(i)

\* the resolvers are those of src/api/handlers.js, the worker of the pages build
InitFrame == InitReorder /\ build = "pages"

SpecFrame == InitFrame /\ [][NextFrame]_vars

----------------------------------------------------------------------------
(* The whole store, and the resolvers that write to it *)

\* strings that are searched or compared by prefix are sequences of characters
Lower(c) == IF c = "A" THEN "a" ELSE IF c = "B" THEN "b" ELSE c

\* String.prototype.toLowerCase
ToLowerCase(str) == [k \in DOMAIN str |-> Lower(str[k])]

\* the four tables of db
Db ==
  [jobs |-> dbJobs, candidates |-> dbCandidates, info |-> dbCandidateInfo,
   assessments |-> dbAssessments, responses |-> dbResponses]

\* the answer of a resolver and the store it leaves
Answer(status, message, result, db) ==
  [status |-> status, message |-> message, result |-> result, db |-> db]

\* a resolver that throws after the failure trial: status 500, store untouched
Thrown(db) == Answer(500, "unhandled exception", << >>, db)

AddJob_m(table, record) ==
  [ok |-> TRUE, id |-> AutoIncrement(table),
   table |-> PutRecord(table, AutoIncrement(table), record)]

\* db.jobs.add(record): the unique index &slug rejects a slug that is stored
AddJob(table, record) ==
  IF \E id \in DOMAIN table : table[id].slug = record.slug
  THEN [ok |-> FALSE, id |-> 0, table |-> table]
  ELSE [ok |-> TRUE, id |-> AutoIncrement(table),
        table |-> PutRecord(table, AutoIncrement(table), record)]

\* http.post('/jobs')
CreateJobResolver(db, newJob, simulateError) ==
  IF simulateError THEN Answer(500, "Server failed to create job", << >>, db)
  ELSE LET newOrder == OrZero(LastByOrder(db.jobs)) + 1
           jobWithDefaults == JobWithDefaults(newJob, newOrder)
           added == AddJob(db.jobs, jobWithDefaults)
       IN IF added.ok
          THEN Answer(201, "", [job |-> jobWithDefaults, id |-> added.id],
                      [db EXCEPT !.jobs = added.table])
          ELSE Thrown(db)

\* http.patch('/jobs/:id') and http.patch('/jobs/reorder') on the whole store
OnJobs(db, r) == Answer(r.status, r.message, << >>, [db EXCEPT !.jobs = r.store])

\* db.candidates.add(record): the unique index &email rejects a stored email
AddCandidate(info, record) ==
  IF \E id \in DOMAIN info : info[id].email = record.email
  THEN [ok |-> FALSE, id |-> 0]
  ELSE [ok |-> TRUE, id |-> AutoIncrement(info)]

\* {...newCandidate, stage: 'applied', createdAt, avatarUrl}
CandidateWithDefaults(newCandidate) == [newCandidate EXCEPT !.stage = "applied"]

\* http.post('/candidates')
CreateCandidateResolver(db, newCandidate, simulateError) ==
  IF simulateError THEN Answer(500, "Failed to create candidate", << >>, db)
  ELSE LET candidateWithDefaults == CandidateWithDefaults(newCandidate)
           added == AddCandidate(db.info, candidateWithDefaults)
       IN IF added.ok
          THEN Answer(201, "", [candidate |-> candidateWithDefaults, id |-> added.id],
                 [db EXCEPT
                    !.candidates = PutRecord(db.candidates, added.id,
                                             candidateWithDefaults.stage),
                    !.info = PutRecord(db.info, added.id,
                                       [name |-> candidateWithDefaults.name,
                                        email |-> candidateWithDefaults.email])])
          ELSE Thrown(db)

\* http.patch('/candidates/:id') with updates = {stage}
PatchCandidateResolver(db, id, stage, simulateError) ==
  IF simulateError THEN Answer(500, "Failed to update candidate", << >>, db)
  ELSE Answer(200, "", [id |-> id, stage |-> stage],
              [db EXCEPT !.candidates = UpdateCandidate(db.candidates, id, stage)])

DefaultAssessment_m(jobId) ==
  [jobId |-> jobId, title |-> "New Assessment", sections |-> << >>]

\* the skeleton that get-assessment answers when nothing is stored
DefaultAssessment(jobId) ==
  [jobId |-> jobId, title |-> "New Assessment",
   sections |-> <<[id |-> "s1", questions |-> << >>]>>]

\* http.get('/assessments/:jobId')
GetAssessmentResolver(db, jobId) ==
  IF jobId \in DOMAIN db.assessments
  THEN Answer(200, "", db.assessments[jobId], db)
  ELSE Answer(200, "", DefaultAssessment(jobId), db)

PutAssessmentResolver_m(db, jobId, assessmentData, simulateError) ==
  Answer(IF simulateError THEN 500 ELSE 200,
         IF simulateError THEN "Failed to save assessment" ELSE "",
         assessmentData,
         [db EXCEPT !.assessments =
            PutRecord(db.assessments, jobId, [assessmentData EXCEPT !.jobId = jobId])])

\* http.put('/assessments/:jobId'): put({...assessmentData, jobId}), and the
\* answer is assessmentData
PutAssessmentResolver(db, jobId, assessmentData, simulateError) ==
  IF simulateError THEN Answer(500, "Failed to save assessment", << >>, db)
  ELSE Answer(200, "", assessmentData,
         [db EXCEPT !.assessments =
            PutRecord(db.assessments, jobId, [assessmentData EXCEPT !.jobId = jobId])])

\* http.post('/assessments/:jobId/submit')
AddResponse_m(table, record) ==
  LET key == IF record.id = Undefined THEN AutoIncrement(table) ELSE record.id
  IN [ok |-> TRUE, id |-> key,
      table |-> PutRecord(table, key, [record EXCEPT !.id = key])]

\* db.assessmentResponses.add(record): stored under the id of the record if it
\* has one, under the next generated key if not; a key that is stored rejects
AddResponse(table, record) ==
  LET key == IF record.id = Undefined THEN AutoIncrement(table) ELSE record.id
  IN IF key \in DOMAIN table
     THEN [ok |-> FALSE, id |-> 0, table |-> table]
     ELSE [ok |-> TRUE, id |-> key,
           table |-> PutRecord(table, key, [record EXCEPT !.id = key])]

\* http.post('/assessments/:jobId/submit')
SubmitAssessmentResolver(db, jobId, submission, simulateError) ==
  IF simulateError THEN Answer(500, "Failed to submit assessment", << >>, db)
  ELSE LET response == [submission EXCEPT !.jobId = jobId]
           added == AddResponse(db.responses, response)
       IN IF added.ok
          THEN Answer(201, "", [response |-> response, id |-> added.id],
                      [db EXCEPT !.responses = added.table])
          ELSE Thrown(db)

----------------------------------------------------------------------------
(* The worker answering calls of every operation *)

\* the slug of the i-th seeded job and the email of the i-th seeded candidate:
\* pairwise different, as slugify(title-timestamp) and slugify(name).i are
SlugOf(i) == [k \in 1..i |-> "a"]

EmailOf(i) == [k \in 1..i |-> "a"]

TitleOf(i) == IF i % 2 = 1 THEN <<"A", "b">> ELSE <<"b", "a">>

\* seedDatabase: jobs with order i, a random status, a slug of their own
SeedJobRecords(n, status) ==
  [id \in 1..n |-> [order |-> id - 1, status |-> status[id],
                    slug |-> SlugOf(id), title |-> TitleOf(id)]]

\* seedDatabase: candidates with an email of their own
SeedCandidateInfo(n) == [id \in 1..n |-> [name |-> <<"A">>, email |-> EmailOf(id)]]

\* seedDatabase: the first job has a sample assessment
SeedAssessments ==
  [jobId \in {1} |->
     [jobId |-> jobId, title |-> "Screening",
      sections |-> <<[id |-> "s1", questions |-> <<"q1", "q2">>]>>]]

\* request bodies of create-job: a stored or a fresh slug, with or without
\* the fields the server sets
NewJobs ==
  {[title |-> <<"A", "b">>, slug |-> sl, status |-> o.status, order |-> o.order] :
     sl \in {SlugOf(1), <<"b">>},
     o \in {[status |-> None, order |-> Undefined],
            [status |-> "archived", order |-> 0]}}

\* request bodies of create-candidate
NewCandidates ==
  {[name |-> <<"A">>, email |-> em, stage |-> st] :
     em \in {EmailOf(1), <<"b">>}, st \in {None, "hired"}}

\* stage values of patch-candidate bodies: a stage, and a string that is none
StageInputs == {"tech", "on-hold"}

\* request bodies of put-assessment; jobId is Undefined when the body has none
AssessmentBodies ==
  {[jobId |-> j, title |-> "Quiz", sections |-> secs] :
     j \in {Undefined, 1},
     secs \in {<< >>, <<[id |-> "s9", questions |-> <<"q9">>]>>}}

\* request bodies of submit-assessment-response: without an id, and with the
\* id of the first response
Submissions ==
  {[id |-> i, candidateId |-> 1, jobId |-> Undefined, answers |-> a] :
     i \in {Undefined, 1}, a \in {"x", "y"}}

\* bodies of bulk-reorder-jobs
ApiReorderBodies ==
  {BadJsonBody, NotArrayBody, ReorderBody(<< >>),
   ReorderBody(<<[id |-> 1, order |-> 1]>>),
   ReorderBody(<<[id |-> 1, order |-> 1], [id |-> 2, order |-> 0]>>)}

InitApi ==
  /\ build = "pages"
  /\ candidates = << >>
  /\ isLoading = TRUE
  /\ activeCandidate = 0
  /\ stageCalls = << >>
  /\ session = NoSession
  /\ base = << >>
  /\ jobs = << >>
  /\ filters = [status |-> "all", page |-> 1]
  /\ pagination = NoPagination
  /\ jobsLoading = FALSE
  /\ jobFetches = {}
  /\ activeJob = 0
  /\ reorderCalls = << >>
  /\ lastCall = NoCall
  /\ \E status \in [1..NOpJobs -> {"active", "archived"}] :
       dbJobs = SeedJobRecords(NOpJobs, status)
  /\ dbCandidates = [c \in CandIds |-> STAGE_IDS[((c - 1) % Len(STAGE_IDS)) + 1]]
  /\ dbCandidateInfo = SeedCandidateInfo(NCandidates)
  /\ dbAssessments = SeedAssessments
  /\ dbResponses = << >>
  /\ lastOp = NoOp
  /\ listed = NoListed
  /\ postJobs = << >>

\* the worker answers one call with answer a: the store it leaves and the
\* response the caller gets
Answered(op, args, simulateError, a) ==
  /\ dbJobs' = a.db.jobs
  /\ dbCandidates' = a.db.candidates
  /\ dbCandidateInfo' = a.db.info
  /\ dbAssessments' = a.db.assessments
  /\ dbResponses' = a.db.responses
  /\ lastOp' = [op |-> op, args |-> args, simulateError |-> simulateError,
                status |-> a.status, message |-> a.message, result |-> a.result,
                before |-> Db, n |-> lastOp.n + 1]
  /\ listed' = NoListed
  /\ UNCHANGED <<build, candidates, isLoading, activeCandidate, stageCalls,
                 session, base, jobs, filters, pagination, jobsLoading,
                 jobFetches, activeJob, reorderCalls, lastCall, postJobs>>

\* POST /jobs
CreateJob(newJob, simulateError) ==
  /\ lastOp.n < MaxOps
  /\ Answered("createJob", newJob, simulateError,
              CreateJobResolver(Db, newJob, simulateError))

\* PATCH /jobs/:id with body {order: n}
PatchJob(id, n, simulateError) ==
  /\ lastOp.n < MaxOps
  /\ Answered("patchJob", [id |-> id, order |-> n], simulateError,
              OnJobs(Db, ServePatch(dbJobs, JobPath(id), PatchBody(n), simulateError)))

\* bulk-reorder-jobs: the resolver of http.patch('/jobs/reorder')
ReorderJobs(body, simulateError) ==
  /\ lastOp.n < MaxOps
  /\ Answered("reorderJobs", body, simulateError,
              OnJobs(Db, ReorderResolver(dbJobs, body, simulateError)))

\* POST /candidates
CreateCandidate(newCandidate, simulateError) ==
  /\ lastOp.n < MaxOps
  /\ Answered("createCandidate", newCandidate, simulateError,
              CreateCandidateResolver(Db, newCandidate, simulateError))

\* PATCH /candidates/:id with body {stage}
PatchCandidate(id, stage, simulateError) ==
  /\ lastOp.n < MaxOps
  /\ Answered("patchCandidate", [id |-> id, stage |-> stage], simulateError,
              PatchCandidateResolver(Db, id, stage, simulateError))

\* GET /assessments/:jobId
GetAssessment(jobId) ==
  /\ lastOp.n < MaxOps
  /\ Answered("getAssessment", [jobId |-> jobId], FALSE, GetAssessmentResolver(Db, jobId))

\* PUT /assessments/:jobId
PutAssessment(jobId, assessmentData, simulateError) ==
  /\ lastOp.n < MaxOps
  /\ Answered("putAssessment", [jobId |-> jobId, body |-> assessmentData],
              simulateError,
              PutAssessmentResolver(Db, jobId, assessmentData, simulateError))

\* POST /assessments/:jobId/submit
SubmitAssessment(jobId, submission, simulateError) ==
  /\ lastOp.n < MaxOps
  /\ Answered("submitAssessment", [jobId |-> jobId, body |-> submission],
              simulateError,
              SubmitAssessmentResolver(Db, jobId, submission, simulateError))

\* the candidates page loads the stored candidates once, at any point between
\* the calls
NextApi ==
  \/ FetchAllCandidates
  \/ \E newJob \in NewJobs, e \in BOOLEAN : CreateJob(newJob, e)
  \/ \E id \in IdInputs, n \in OrderInputs, e \in BOOLEAN : PatchJob(id, n, e)
  \/ \E body \in ApiReorderBodies, e \in BOOLEAN : ReorderJobs(body, e)
  \/ \E c \in NewCandidates, e \in BOOLEAN : CreateCandidate(c, e)
  \/ \E id \in 1..(NCandidates + 1), st \in StageInputs, e \in BOOLEAN :
       PatchCandidate(id, st, e)
  \/ \E jobId \in IdInputs : GetAssessment(jobId)
  \/ \E jobId \in 1..NOpJobs, body \in AssessmentBodies, e \in BOOLEAN :
       PutAssessment(jobId, body, e)
  \/ \E jobId \in 1..NOpJobs, sub \in Submissions, e \in BOOLEAN :
       SubmitAssessment(jobId, sub, e)

SpecApi == InitApi /\ [][NextApi]_vars

----------------------------------------------------------------------------
(* The list resolvers: http.get('/jobs') and http.get('/candidates') *)

StartsWith_m(str, searchString) ==
  \E k \in 0..(Len(str) - Len(searchString)) :
    \A i \in 1..Len(searchString) : str[k + i] = searchString[i]

\* String.prototype.startsWith
StartsWith(str, searchString) ==
  /\ Len(searchString) <= Len(str)
  /\ \A i \in 1..Len(searchString) : str[i] = searchString[i]

RECURSIVE KeyOrder(_)
\* the keys of a collection in the order Dexie iterates them: for
\* toCollection() the primary keys ascending, for where(index).equals(v) the
\* index entries of v, which are ordered by primary key
KeyOrder(keys) ==
  IF keys = {} THEN << >>
  ELSE LET first == CHOOSE x \in keys : \A y \in keys : x <= y
       IN <<first>> \o KeyOrder(keys \ {first})

\* db.jobs.where('status').equals(status) or db.jobs.toCollection()
JobsCollection(table, status) ==
  KeyOrder({id \in DOMAIN table : status = "all" \/ table[id].status = status})

\* the filter of the search parameter; an empty search adds no filter
JobMatches(job, search) ==
  \/ search = << >>
  \/ StartsWith(ToLowerCase(job.title), ToLowerCase(search))
  \/ StartsWith(ToLowerCase(job.slug), ToLowerCase(search))

\* Collection.filter(fn): the keys whose record passes, in iteration
\* order; passes maps a key to the answer of fn for its record
FilterKeys(keys, passes) == SelectSeq(keys, LAMBDA id : passes[id])

\* the value of the sort field as the comparison of sortBy sees it: the
\* number for order, and 'active' < 'archived' for status
SortKey(record, sort) ==
  IF sort = "order" THEN record.order
  ELSE IF record.status = "active" THEN 0 ELSE 1

InsertByKey_m(sorted, x, key) ==
  LET before == IF listed.kind = "none"
                THEN SelectSeq(sorted, LAMBDA y : key[y] <= key[x])
                ELSE SelectSeq(sorted, LAMBDA y : key[y] < key[x])
      after == IF listed.kind = "none"
               THEN SelectSeq(sorted, LAMBDA y : key[y] > key[x])
               ELSE SelectSeq(sorted, LAMBDA y : key[y] >= key[x])
  IN before \o <<x>> \o after

\* one step of a stable sort: x goes behind the elements that do not compare
\* greater; key maps an element to the value of its sort field
InsertByKey(sorted, x, key) ==
  LET before == SelectSeq(sorted, LAMBDA y : key[y] <= key[x])
      after == SelectSeq(sorted, LAMBDA y : key[y] > key[x])
  IN before \o <<x>> \o after

RECURSIVE StableSort(_, _, _)
\* Collection.sortBy(keyPath): toArray(), then Array.prototype.sort with the
\* comparison of the key path, which is stable
StableSort(sorted, rest, key) ==
  IF rest = << >> THEN sorted
  ELSE StableSort(InsertByKey(sorted, Head(rest), key), Tail(rest), key)

\* the pagination object of both list answers
Pagination(page, pageSize, total) ==
  [page |-> page, pageSize |-> pageSize, total |-> total,
   totalPages |-> CeilDiv(total, pageSize)]

\* http.get('/jobs')
GetJobsResolver(table, q) ==
  LET collection == FilterKeys(JobsCollection(table, q.status),
                               [id \in DOMAIN table |-> JobMatches(table[id], q.search)])
      total == Len(collection)
      sorted == StableSort(<< >>, collection,
                           [id \in DOMAIN table |-> SortKey(table[id], q.sort)])
  IN [items |-> Slice(sorted, (q.page - 1) * q.pageSize, q.page * q.pageSize),
      pagination |-> Pagination(q.page, q.pageSize, total)]

\* db.candidates.where('stage').equals(stage) or db.candidates.toCollection()
CandidatesCollection(stages, stage) ==
  KeyOrder({id \in DOMAIN stages : stage = "all" \/ stages[id] = stage})

CandidateMatches(c, search) ==
  \/ search = << >>
  \/ StartsWith(ToLowerCase(c.name), ToLowerCase(search))
  \/ StartsWith(ToLowerCase(c.email), ToLowerCase(search))

\* Collection.offset(n).limit(m).toArray()
OffsetLimit(keys, offset, limit) ==
  SubSeq(keys, offset + 1,
         IF offset + limit < Len(keys) THEN offset + limit ELSE Len(keys))

\* http.get('/candidates')
GetCandidatesResolver(db, q) ==
  LET collection == FilterKeys(CandidatesCollection(db.candidates, q.stage),
                               [id \in DOMAIN db.info |-> CandidateMatches(db.info[id], q.search)])
      total == Len(collection)
  IN [items |-> OffsetLimit(collection, (q.page - 1) * q.pageSize, q.pageSize),
      pagination |-> Pagination(q.page, q.pageSize, total)]

----------------------------------------------------------------------------
(* The worker answering list calls *)

\* the search strings of list calls: none, a prefix of the titles and names
\* "ba" in the other case, a prefix of slugs and emails
Searches == {<< >>, <<"B">>, <<"a", "a">>}

JobQueries ==
  [search : Searches, status : Statuses, page : 1..MaxPage,
   pageSize : 1..MaxPageSize, sort : {"order", "status"}]

CandidateQueries ==
  [search : Searches, stage : {"all"} \cup SeedStages, page : 1..MaxPage,
   pageSize : 1..MaxPageSize]

InitQuery ==
  /\ build = "pages"
  /\ candidates = << >>
  /\ isLoading = FALSE
  /\ activeCandidate = 0
  /\ stageCalls = << >>
  /\ session = NoSession
  /\ base = << >>
  /\ jobs = << >>
  /\ filters = [status |-> "all", page |-> 1]
  /\ pagination = NoPagination
  /\ jobsLoading = FALSE
  /\ jobFetches = {}
  /\ activeJob = 0
  /\ reorderCalls = << >>
  /\ lastCall = NoCall
  /\ \E order \in [1..NQueryRecords -> 0..1] :
       dbJobs = [id \in 1..NQueryRecords |->
                   [order |-> order[id],
                    status |-> IF id % 3 = 0 THEN "archived" ELSE "active",
                    slug |-> SlugOf(id), title |-> TitleOf(id)]]
  /\ dbCandidates = [id \in 1..NQueryRecords |->
                       STAGE_IDS[((id - 1) % NSeedStages) + 1]]
  /\ dbCandidateInfo = [id \in 1..NQueryRecords |->
                          [name |-> TitleOf(id), email |-> EmailOf(id)]]
  /\ dbAssessments = << >>
  /\ dbResponses = << >>
  /\ lastOp = NoOp
  /\ listed = NoListed
  /\ postJobs = << >>

\* the answers to the list calls of one query, by page: the first and the
\* latest answer for each page
Listed(kind, q, r) ==
  LET query == [q EXCEPT !.page = 0]
      same == listed.kind = kind /\ listed.query = query
      pages == IF same THEN listed.pages ELSE << >>
      entry == IF q.page \in DOMAIN pages
               THEN [first |-> pages[q.page].first, last |-> r, times |-> 2]
               ELSE [first |-> r, last |-> r, times |-> 1]
  IN [kind |-> kind, query |-> query, pages |-> PutRecord(pages, q.page, entry)]

\* GET /jobs?search=&status=&page=&pageSize=&sort=
ListJobsRequest(q) ==
  /\ listed' = Listed("jobs", q, GetJobsResolver(dbJobs, q))
  /\ UNCHANGED <<build, kanbanVars, jobsVars, dbCandidateInfo, dbAssessments,
                 dbResponses, lastOp, postJobs>>

\* GET /candidates?search=&stage=&page=&pageSize=
ListCandidatesRequest(q) ==
  /\ listed' = Listed("candidates", q, GetCandidatesResolver(Db, q))
  /\ UNCHANGED <<build, kanbanVars, jobsVars, dbCandidateInfo, dbAssessments,
                 dbResponses, lastOp, postJobs>>

NextQuery ==
  \/ \E q \in JobQueries : ListJobsRequest(q)
  \/ \E q \in CandidateQueries : ListCandidatesRequest(q)

SpecQuery == InitQuery /\ [][NextQuery]_vars

----------------------------------------------------------------------------
(* Both controllers with a transport that answers *)

\* one of the two pages is mounted; the seeded candidates are all in the
\* first stage
InitControllers ==
  \/ InitKanban /\ \A c \in CandIds : dbCandidates[c] = STAGE_IDS[1]
  \/ InitReorder

NextControllers == NextKanban \/ NextReorder

\* a call in flight is served, and the continuation behind its await runs
TransportStep ==
  \/ \E i \in 1..MaxStageCalls, e \in BOOLEAN : PatchCandidateHandler(i, e)
  \/ \E i \in 1..MaxStageCalls : ResolveStageCall(i)
  \/ \E i \in 1..MaxReorderCalls, e \in BOOLEAN : ServeReorderCall(i, e)
  \/ \E i \in 1..MaxReorderCalls : ResolveReorderCall(i)

\* randomLatency is a bounded delay and every resolver returns, so the
\* transport does not stop while a call is in flight
Transport == WF_vars(TransportStep)

SpecLive == InitControllers /\ [][NextControllers]_vars /\ Transport

----------------------------------------------------------------------------
(* Candidate stage moves: claims C1 to C5 *)

\* the latest drag session previewed the card over stage t, different from
\* the stage it started in, and was dropped on t
PreviewedDrop ==
  /\ session.ended
  /\ session.target # None
  /\ session.target # session.start
  /\ session.preview = session.target

AllStageCallsFailed ==
  \A i \in DOMAIN stageCalls : stageCalls[i].state = "rolledback"

\* C1: a candidate dragged from stage s through the preview and dropped on
\* another stage t, with every patch-candidate call failing, ends with stage
\* s in the rendered list and in the store.
C1_FailedDropRestoresStart ==
  (PreviewedDrop /\ AllStageCallsFailed)
    => /\ candidates[session.cand] = session.start
       /\ dbCandidates[session.cand] = session.start

\* C2: a drag session that previews candidate c over t and drops it on t
\* issues no call during the preview and exactly one call at the drop,
\* patch-candidate(c, {stage: t}).
C2_OneCallAtDrop ==
  PreviewedDrop
    => /\ Len(stageCalls) = session.callsAtStart + 1
       /\ session.call = Len(stageCalls)
       /\ stageCalls[session.call].cand = session.cand
       /\ stageCalls[session.call].newStage = session.target

C4_RollbackIsolation ==
  [][\A i \in DOMAIN stageCalls :
       (stageCalls[i].state = "err" /\ stageCalls'[i].state = "rolledback")
         => /\ DOMAIN candidates' = DOMAIN candidates
            /\ candidates'[stageCalls[i].cand] = stageCalls[i].oldStage
            /\ \A d \in DOMAIN candidates \ {stageCalls[i].cand} :
                 candidates'[d] = candidates[d]
            /\ dbCandidates' = dbCandidates]_vars

\* a rolled back move next to another candidate's move that is still
\* optimistic
C4_Witness ==
  \E i, j \in DOMAIN stageCalls :
    /\ stageCalls[i].state = "rolledback"
    /\ stageCalls[j].state = "sent"
    /\ stageCalls[j].cand # stageCalls[i].cand
    /\ candidates[stageCalls[j].cand] = stageCalls[j].newStage
    /\ candidates[stageCalls[j].cand] # dbCandidates[stageCalls[j].cand]
    /\ candidates[stageCalls[i].cand] = stageCalls[i].oldStage

RECURSIVE ApplyCommitted(_, _, _)
\* the intents calls[i..], the failed one left out, applied in order
ApplyCommitted(view, calls, i) ==
  IF i > Len(calls) THEN view
  ELSE ApplyCommitted(IF calls[i].state = "committed"
                      THEN ApplyStage(view, calls[i].cand, calls[i].newStage)
                      ELSE view,
                      calls, i + 1)

\* C5: once all stage-move intents have settled and exactly one of them
\* failed, the rendered stages are those obtained from the loaded list by
\* applying all the other intents in the order they were issued.
C5_RollbackExactness ==
  (/\ ~isLoading
   /\ activeCandidate = 0
   /\ \A i \in DOMAIN stageCalls :
        stageCalls[i].state \in {"committed", "rolledback"}
   /\ Cardinality({i \in DOMAIN stageCalls :
                     stageCalls[i].state = "rolledback"}) = 1)
    => candidates = ApplyCommitted(base, stageCalls, 1)

----------------------------------------------------------------------------
(* Job reorder: claims C6 to C10 *)

\* C6: when the bulk-reorder call of a reorder intent is rejected, the
\* rendered job list becomes the list that was rendered immediately before
\* the intent: same jobs, same sequence, same order fields.
C6_ReorderRollback ==
  [][\A i \in DOMAIN reorderCalls :
       (reorderCalls[i].state = "err" /\ reorderCalls'[i].state = "rolledback")
         => jobs' = reorderCalls[i].before]_vars

\* a rolled back intent whose optimistic list differed from the list before
C6_Witness ==
  \E i \in DOMAIN reorderCalls :
    /\ reorderCalls[i].state = "rolledback"
    /\ jobs = reorderCalls[i].before
    /\ ApiPayload(jobs) # reorderCalls[i].payload

\* the latest call was a bulk-reorder-jobs call
ReorderServed == lastCall.kind = "reorder"

\* C7: a bulk-reorder-jobs call answered with a failure (400 or 500) has
\* changed no job's stored order.
C7_NoPartialApply ==
  (ReorderServed /\ lastCall.status \in {400, 500})
    => \A id \in DOMAIN dbJobs : dbJobs[id].order = lastCall.before[id].order

\* a non-empty array of {id, order} pairs for existing, pairwise distinct jobs
ExistingPairs(body, store) ==
  /\ body.kind = "orderedJobs"
  /\ body.isArray
  /\ Len(body.items) > 0
  /\ \A k \in DOMAIN body.items : body.items[k].id \in DOMAIN store
  /\ \A j, k \in DOMAIN body.items :
       body.items[j].id = body.items[k].id => j = k

\* C8: a bulk-reorder-jobs call with a non-empty array of pairs for existing
\* jobs whose failure trial passes answers {status: "ok"}, and every listed
\* job's stored order is then the order given for it.
C8_ReorderSucceeds ==
  (/\ ReorderServed
   /\ ExistingPairs(lastCall.body, lastCall.before)
   /\ ~lastCall.simulateError)
    => /\ lastCall.status = 200
       /\ lastCall.message = "ok"
       /\ \A k \in DOMAIN lastCall.body.items :
            dbJobs[lastCall.body.items[k].id].order = lastCall.body.items[k].order

\* C9: a bulk-reorder call whose ordered list is empty or not an array is
\* answered with status 400 and leaves the store as it was.
C9_EmptyRejected ==
  (/\ ReorderServed
   /\ lastCall.body.kind = "orderedJobs"
   /\ ~lastCall.body.isArray \/ Len(lastCall.body.items) = 0)
    => /\ lastCall.status = 400
       /\ dbJobs = lastCall.before

\* C10: once the bulk-reorder call of a window of K jobs has been served with
\* a passing failure trial, the stored order values of those K jobs are a
\* permutation of 0 .. K-1, on any page.
C10_ReorderDensity ==
  \A i \in DOMAIN reorderCalls :
    (reorderCalls[i].state # "sent" /\ reorderCalls[i].trialPassed)
      => {dbJobs[reorderCalls[i].payload[k].id].order :
            k \in DOMAIN reorderCalls[i].payload}
           = 0..(Len(reorderCalls[i].payload) - 1)


----------------------------------------------------------------------------
(* The operations of the worker: claims C11, C12, C16 to C19 *)

\* the operations that write to the store
WriteOps ==
  {"createJob", "patchJob", "reorderJobs", "createCandidate", "patchCandidate",
   "putAssessment", "submitAssessment"}

\* C11: a call of a write operation whose failure trial fails is answered
\* with a failure that carries a message and leaves every table as it was;
\* the store differs after a call only if the call was a write whose trial
\* passed.
C11_FailedTrialLeavesStore ==
  lastOp.op # "none" =>
    /\ (lastOp.op \in WriteOps /\ lastOp.simulateError)
         => /\ lastOp.status >= 400
            /\ lastOp.message # ""
            /\ Db = lastOp.before
    /\ Db # lastOp.before => (lastOp.op \in WriteOps /\ ~lastOp.simulateError)

\* a put-assessment that would have changed the stored assessment fails its
\* trial after an earlier call
C11_Witness ==
  /\ lastOp.op = "putAssessment"
  /\ lastOp.simulateError
  /\ lastOp.status = 500
  /\ lastOp.n = 2
  /\ lastOp.args.jobId \in DOMAIN dbAssessments
  /\ dbAssessments[lastOp.args.jobId].title # lastOp.args.body.title
  /\ Db = lastOp.before

\* the ids that list-jobs(status = active) answers on a page of one job
ActivePage(page) ==
  GetJobsResolver(dbJobs, [search |-> << >>, status |-> "active", page |-> page,
                           pageSize |-> 1, sort |-> "order"]).items

\* C12: a create-job that succeeds stores a new job with status active and
\* order = (greatest order stored before the call) + 1, whatever status and
\* order the payload carries, and the job is on a page of
\* list-jobs(status = active).
C12_CreateJobDefaults ==
  (lastOp.op = "createJob" /\ lastOp.status = 201) =>
    LET id == lastOp.result.id
        before == lastOp.before.jobs
    IN /\ id \notin DOMAIN before
       /\ id \in DOMAIN dbJobs
       /\ dbJobs[id].status = "active"
       /\ \A j \in DOMAIN before : dbJobs[id].order >= before[j].order + 1
       /\ \E j \in DOMAIN before : dbJobs[id].order = before[j].order + 1
       /\ \E page \in 1..Cardinality(DOMAIN dbJobs) : ActivePage(page) = <<id>>

\* a payload that sets status and order is stored with the server's values,
\* after a patch has moved the greatest order
C12_Witness ==
  /\ lastOp.op = "createJob"
  /\ lastOp.status = 201
  /\ lastOp.args.status = "archived"
  /\ lastOp.args.order = 0
  /\ dbJobs[lastOp.result.id].status = "active"
  /\ dbJobs[lastOp.result.id].order = 3

\* C16: get-assessment for a jobId that has no stored assessment answers
\* without error a skeleton with that jobId, exactly one section and no
\* question, and stores nothing.
C16_DefaultSkeleton ==
  (/\ lastOp.op = "getAssessment"
   /\ lastOp.args.jobId \notin DOMAIN lastOp.before.assessments)
    => /\ lastOp.status = 200
       /\ lastOp.result.jobId = lastOp.args.jobId
       /\ Len(lastOp.result.sections) = 1
       /\ lastOp.result.sections[1].questions = << >>
       /\ Db = lastOp.before

\* the skeleton is answered for a job that has none while another job has one
C16_Witness ==
  /\ lastOp.op = "getAssessment"
  /\ lastOp.args.jobId \notin DOMAIN dbAssessments
  /\ dbAssessments # << >>
  /\ lastOp.result.jobId = lastOp.args.jobId
  /\ Len(lastOp.result.sections) = 1

\* C17: after a put-assessment(jobId, body) that succeeds the assessment
\* stored for jobId has body's title and sections and jobId = the path
\* jobId, get-assessment(jobId) answers it, and the answer of put-assessment
\* is the stored assessment.
C17_PutReplaces ==
  (lastOp.op = "putAssessment" /\ lastOp.status = 200) =>
    LET jobId == lastOp.args.jobId
        body == lastOp.args.body
    IN /\ jobId \in DOMAIN dbAssessments
       /\ GetAssessmentResolver(Db, jobId).result = dbAssessments[jobId]
       /\ dbAssessments[jobId].title = body.title
       /\ dbAssessments[jobId].sections = body.sections
       /\ dbAssessments[jobId].jobId = jobId
       /\ lastOp.result = dbAssessments[jobId]

\* C18: the stage of every candidate, stored or rendered, is one of the six
\* stages of STAGE_IDS.
C18_StageInSet ==
  /\ \A c \in DOMAIN dbCandidates : dbCandidates[c] \in StageSet
  /\ \A c \in DOMAIN candidates : candidates[c] \in StageSet

UniqueSlugs ==
  \A i, j \in DOMAIN dbJobs : dbJobs[i].slug = dbJobs[j].slug => i = j

UniqueEmails ==
  \A i, j \in DOMAIN dbCandidateInfo :
    dbCandidateInfo[i].email = dbCandidateInfo[j].email => i = j

\* C19: no two stored jobs share a slug and no two stored candidates share
\* an email; a create-job with a stored slug and a create-candidate with a
\* stored email fail and leave every table as it was.
C19_UniqueKeys ==
  /\ UniqueSlugs
  /\ UniqueEmails
  /\ (/\ lastOp.op = "createJob"
      /\ \E id \in DOMAIN lastOp.before.jobs :
           lastOp.before.jobs[id].slug = lastOp.args.slug)
       => (lastOp.status >= 400 /\ Db = lastOp.before)
  /\ (/\ lastOp.op = "createCandidate"
      /\ \E id \in DOMAIN lastOp.before.info :
           lastOp.before.info[id].email = lastOp.args.email)
       => (lastOp.status >= 400 /\ Db = lastOp.before)

\* a second create-job with the slug of a job the first call created is
\* rejected although its failure trial passed
C19_Witness ==
  /\ lastOp.op = "createJob"
  /\ ~lastOp.simulateError
  /\ lastOp.status = 500
  /\ lastOp.args.slug = <<"b">>
  /\ Cardinality(DOMAIN dbJobs) = NOpJobs + 1


----------------------------------------------------------------------------
(* The list operations: claims C13 to C15 *)

RECURSIVE SumOfLengths(_, _)
\* the lengths of the latest answers for pages 1..n, added up
SumOfLengths(pages, n) ==
  IF n = 0 THEN 0 ELSE Len(pages[n].last.items) + SumOfLengths(pages, n - 1)

\* the records on the latest answer for page p
RecordsOn(p) == {listed.pages[p].last.items[k] : k \in DOMAIN listed.pages[p].last.items}

\* C13: for the list calls of one query (list-jobs or list-candidates, the
\* same filters and pageSize, no write in between): every page reports the
\* same total and totalPages, no record is on two pages, and once pages
\* 1..totalPages have been listed their lengths add up to total.
C13_PaginationInvariant ==
  listed.kind # "none" =>
    /\ \A p, r \in DOMAIN listed.pages :
         /\ listed.pages[p].last.pagination.total
              = listed.pages[r].last.pagination.total
         /\ listed.pages[p].last.pagination.totalPages
              = listed.pages[r].last.pagination.totalPages
         /\ p # r => RecordsOn(p) \cap RecordsOn(r) = {}
    /\ \A p \in DOMAIN listed.pages :
         LET pg == listed.pages[p].last.pagination
         IN (1..pg.totalPages) \subseteq DOMAIN listed.pages
              => SumOfLengths(listed.pages, pg.totalPages) = pg.total

\* both pages of a list-jobs query of three jobs have been listed, the second
\* one is not full
C13_Witness ==
  /\ listed.kind = "jobs"
  /\ DOMAIN listed.pages = {1, 2}
  /\ listed.pages[1].last.pagination.totalPages = 2
  /\ Len(listed.pages[1].last.items) = 2
  /\ Len(listed.pages[2].last.items) = 1

\* searchString is a prefix of str
IsPrefix(searchString, str) ==
  /\ Len(searchString) <= Len(str)
  /\ SubSeq(str, 1, Len(searchString)) = searchString

\* the jobs a query selects: status equal to the filter, and title or slug
\* beginning with the search string, letter case ignored
Selected(table, q) ==
  {id \in DOMAIN table :
     /\ q.status = "all" \/ table[id].status = q.status
     /\ \/ IsPrefix(ToLowerCase(q.search), ToLowerCase(table[id].title))
        \/ IsPrefix(ToLowerCase(q.search), ToLowerCase(table[id].slug))}

\* how many selected jobs come before job id: those of a smaller sort field,
\* and of an equal sort field and a smaller id
Rank(table, q, id) ==
  Cardinality({y \in Selected(table, q) :
     \/ SortKey(table[y], q.sort) < SortKey(table[id], q.sort)
     \/ SortKey(table[y], q.sort) = SortKey(table[id], q.sort) /\ y < id})

\* C14: a list-jobs answer for page p holds exactly the jobs of rank
\* (p-1)*pageSize up to p*pageSize - 1 among the selected jobs, in rank
\* order; total is the number of selected jobs and totalPages is
\* ceil(total / pageSize).
C14_ListJobsContract ==
  listed.kind = "jobs" =>
    \A p \in DOMAIN listed.pages :
      LET q == [listed.query EXCEPT !.page = p]
          answer == listed.pages[p].last
          total == Cardinality(Selected(dbJobs, q))
          from == (p - 1) * q.pageSize
      IN /\ answer.pagination.total = total
         /\ answer.pagination.totalPages * q.pageSize >= total
         /\ (answer.pagination.totalPages - 1) * q.pageSize < total
         /\ \A id \in Selected(dbJobs, q) :
              (Rank(dbJobs, q, id) >= from /\ Rank(dbJobs, q, id) < from + q.pageSize)
                => /\ Rank(dbJobs, q, id) - from + 1 \in DOMAIN answer.items
                   /\ answer.items[Rank(dbJobs, q, id) - from + 1] = id
         /\ \A k \in DOMAIN answer.items :
              /\ answer.items[k] \in Selected(dbJobs, q)
              /\ Rank(dbJobs, q, answer.items[k]) = from + k - 1

\* a search for "B" answers a job titled "ba" and leaves out the jobs titled
\* "Ab", which hold the letter but do not begin with it
C14_Witness ==
  /\ listed.kind = "jobs"
  /\ listed.query.search = <<"B">>
  /\ listed.query.status = "all"
  /\ 1 \in DOMAIN listed.pages
  /\ listed.pages[1].last.items # << >>
  /\ listed.pages[1].last.pagination.total < Cardinality(DOMAIN dbJobs)
  /\ \A k \in DOMAIN listed.pages[1].last.items :
       dbJobs[listed.pages[1].last.items[k]].title = <<"b", "a">>

----------------------------------------------------------------------------
(* Settlement: claim C20 *)

Settled == {"committed", "rolledback"}

\* a call has settled and no drag is in progress
StageIdle ==
  /\ activeCandidate = 0
  /\ \E i \in DOMAIN stageCalls : stageCalls[i].state \in Settled

ReorderIdle ==
  /\ activeJob = 0
  /\ ~jobsLoading
  /\ \E i \in DOMAIN reorderCalls : reorderCalls[i].state \in Settled

\* every call that was issued has been committed or rolled back
AllSettled ==
  /\ \A i \in DOMAIN stageCalls : stageCalls[i].state \in Settled
  /\ \A i \in DOMAIN reorderCalls : reorderCalls[i].state \in Settled

\* C20: every stage-move call and every reorder call that was issued is
\* eventually committed or rolled back (calls are never withdrawn, so: again
\* and again every issued call has settled), and once a call has settled a
\* new drag can start whenever none is in progress.
C20_CallsSettle ==
  /\ []<>AllSettled
  /\ [](StageIdle => ~isLoading /\ DOMAIN candidates # {})
  /\ [](ReorderIdle => jobs # << >>)

\* a stage-move call has been rolled back while a second one is in flight
C20_Witness ==
  /\ Len(stageCalls) = 2
  /\ stageCalls[1].state = "rolledback"
  /\ stageCalls[2].state = "sent"

----------------------------------------------------------------------------
(* Optimistic application and the call: claim C21 *)

\* C21: in the step that issues the call of an intent the rendered state
\* already holds the intent's value: the dropped stage for the candidate of a
\* stage-move call, the rearranged window for a reorder call; the call is
\* resolved in a later step.
C21_OptimisticBeforeCall ==
  [][/\ Len(stageCalls') > Len(stageCalls)
          => LET call == stageCalls'[Len(stageCalls')]
             IN /\ call.state = "sent"
                /\ candidates'[call.cand] = call.newStage
     /\ Len(reorderCalls') > Len(reorderCalls)
          => LET call == reorderCalls'[Len(reorderCalls')]
             IN /\ call.state = "sent"
                /\ ApiPayload(jobs') = call.payload]_vars

----------------------------------------------------------------------------
(* The rendered list against the store: claim C22 *)

\* every reorder call that was issued has been committed or rolled back
ReordersSettled ==
  /\ reorderCalls # << >>
  /\ \A i \in DOMAIN reorderCalls : reorderCalls[i].state \in Settled

\* C22: when every issued reorder call has settled (and no page load is in
\* flight), each job of the rendered list has the order value of its record
\* in the store.
C22_Reconciled ==
  (ReordersSettled /\ jobFetches = {})
    => \A k \in DOMAIN jobs : jobs[k].order = dbJobs[jobs[k].id].order

----------------------------------------------------------------------------
(* Assessment responses: claim C23 *)

\* C23: no call of any operation changes or removes a stored assessment
\* response, and a submit-assessment-response that succeeds adds exactly one
\* record, which holds the submitted answers.
C23_ResponsesAppendOnly ==
  [][/\ \A id \in DOMAIN dbResponses :
          /\ id \in DOMAIN dbResponses'
          /\ dbResponses'[id] = dbResponses[id]
     /\ dbResponses' # dbResponses
          => /\ lastOp'.op = "submitAssessment"
             /\ lastOp'.status = 201
             /\ DOMAIN dbResponses' = DOMAIN dbResponses \cup {lastOp'.result.id}
             /\ dbResponses'[lastOp'.result.id].answers = lastOp'.args.body.answers
             /\ dbResponses'[lastOp'.result.id].jobId = lastOp'.args.jobId]_vars

\* a submission that names the id of a stored response with other answers
\* was answered, and the stored response is as it was
C23_Witness ==
  /\ lastOp.op = "submitAssessment"
  /\ ~lastOp.simulateError
  /\ lastOp.args.body.id \in DOMAIN lastOp.before.responses
  /\ lastOp.before.responses[lastOp.args.body.id].answers # lastOp.args.body.answers
  /\ dbResponses = lastOp.before.responses

----------------------------------------------------------------------------
(* POST /jobs resolvers that run side by side *)

InitCreate ==
  /\ build = "pages"
  /\ KanbanUnused
  /\ ApiUnused
  /\ \E status \in [1..NOpJobs -> {"active", "archived"}] :
       dbJobs = SeedJobRecords(NOpJobs, status)
  /\ jobs = << >>
  /\ filters = [status |-> "all", page |-> 1]
  /\ pagination = NoPagination
  /\ jobsLoading = FALSE
  /\ jobFetches = {}
  /\ activeJob = 0
  /\ reorderCalls = << >>
  /\ lastCall = NoCall

\* request bodies of the create-job requests: a stored slug and two fresh ones
PostJobBodies ==
  {[title |-> <<"B", "a">>, slug |-> sl, status |-> None, order |-> Undefined] :
     sl \in {SlugOf(1), <<"b">>, <<"b", "b">>}}

\* http.post('/jobs') up to the await of db.jobs.add: the failure trial, and
\* newOrder computed from the job that is last by order at this moment
PostJobRead(newJob, simulateError) ==
  /\ Len(postJobs) < MaxPostJobs
  /\ postJobs' = Append(postJobs,
       IF simulateError
       THEN [newJob |-> newJob, newOrder |-> 0, state |-> "failed", id |-> 0]
       ELSE [newJob |-> newJob, newOrder |-> OrZero(LastByOrder(dbJobs)) + 1,
             state |-> "read", id |-> 0])
  /\ UNCHANGED <<build, kanbanVars, jobsVars, dbCandidateInfo, dbAssessments,
                 dbResponses, lastOp, listed>>

\* http.post('/jobs') from db.jobs.add on: the job is stored with the order
\* computed before, and the resolver answers 201 (or throws)
PostJobAdd(i) ==
  /\ i \in DOMAIN postJobs
  /\ postJobs[i].state = "read"
  /\ LET jobWithDefaults == JobWithDefaults(postJobs[i].newJob, postJobs[i].newOrder)
         added == AddJob(dbJobs, jobWithDefaults)
     IN /\ dbJobs' = added.table
        /\ postJobs' = [postJobs EXCEPT
             ![i].state = IF added.ok THEN "created" ELSE "thrown",
             ![i].id = added.id]
  /\ UNCHANGED <<build, kanbanVars, dbCandidateInfo, dbAssessments, dbResponses,
                 lastOp, listed, jobs, filters, pagination, jobsLoading,
                 jobFetches, activeJob, reorderCalls, lastCall>>

NextCreate ==
  \/ \E newJob \in PostJobBodies, e \in BOOLEAN : PostJobRead(newJob, e)
  \/ \E i \in 1..MaxPostJobs : PostJobAdd(i)
  \/ \E body \in ApiReorderBodies, e \in BOOLEAN : PatchReorderRequest(body, e)

SpecCreate == InitCreate /\ [][NextCreate]_vars

----------------------------------------------------------------------------
(* Order values in the store: claim C24 *)

\* C24: starting from pairwise distinct order values, with only create-job
\* and bulk-reorder requests served, no two stored jobs have the same order
\* value.
C24_TotalOrder ==
  \A a, b \in DOMAIN dbJobs : a # b => dbJobs[a].order # dbJobs[b].order

----------------------------------------------------------------------------
(* The orders a reorder intent computes: claim C25 *)

\* C25: the step that handles a reorder intent for the window loaded as page
\* p (the page of the latest list-jobs answer) issues exactly one call; the job at (0-based) index i of the rearranged
\* window is rendered with order (p-1)*10 + i, and the payload of the call
\* holds the {id, order} pair of every job of the rendered window, in
\* sequence.
C25_WindowOrders ==
  [][Len(reorderCalls') > Len(reorderCalls)
       => LET call == reorderCalls'[Len(reorderCalls')]
          IN /\ Len(reorderCalls') = Len(reorderCalls) + 1
             /\ Len(jobs') = Len(jobs)
             /\ \A k \in DOMAIN jobs' :
                  jobs'[k].order = (pagination.page - 1) * PageSize + (k - 1)
             /\ call.payload = ApiPayload(jobs')]_vars

----------------------------------------------------------------------------
(* What a reorder leaves alone: claim C26 *)

\* the ids of the jobs of a rendered list, and of a payload
IdsOf(list) == {list[k].id : k \in DOMAIN list}

\* records a and b agree on every field but order
SameButOrder(a, b) ==
  /\ DOMAIN a = DOMAIN b
  /\ \A f \in DOMAIN a \ {"order"} : a[f] = b[f]

\* every job of list is in before with the same fields, order left aside
KeptFrom(list, before) ==
  \A k \in DOMAIN list :
    \E m \in DOMAIN before :
      before[m].id = list[k].id /\ SameButOrder(list[k], before[m])

\* C26: the optimistic apply of a reorder renders the same jobs as before it
\* with only their order changed; its rollback renders the jobs of the
\* intent's window with their other fields as they were; and the reorder
\* resolver neither adds nor removes a stored job, changes no field but order,
\* and leaves every job that the payload does not name as it was.
C26_ReorderFrame ==
  [][/\ Len(reorderCalls') > Len(reorderCalls)
          => /\ Len(jobs') = Len(jobs)
             /\ IdsOf(jobs') = IdsOf(jobs)
             /\ KeptFrom(jobs', jobs)
     /\ \A i \in DOMAIN reorderCalls :
          (reorderCalls[i].state = "err" /\ reorderCalls'[i].state = "rolledback")
            => /\ IdsOf(jobs') = IdsOf(reorderCalls[i].payload)
               /\ KeptFrom(jobs', reorderCalls[i].before)
     /\ DOMAIN dbJobs' = DOMAIN dbJobs
     /\ \A id \in DOMAIN dbJobs : SameButOrder(dbJobs'[id], dbJobs[id])
     /\ dbJobs' # dbJobs
          => \E i \in DOMAIN reorderCalls :
               \A id \in DOMAIN dbJobs \ IdsOf(reorderCalls[i].payload) :
                 dbJobs'[id] = dbJobs[id]]_vars

\* the resolver has stored the orders of a window of page 2 and the intent
\* was rolled back
C26_Witness ==
  \E i \in DOMAIN reorderCalls :
    /\ reorderCalls[i].state = "rolledback"
    /\ reorderCalls[i].page = 2
    /\ \A k \in DOMAIN reorderCalls[i].payload :
         dbJobs[reorderCalls[i].payload[k].id].order = reorderCalls[i].payload[k].order
    /\ \E k \in DOMAIN reorderCalls[i].before :
         dbJobs[reorderCalls[i].before[k].id].order # reorderCalls[i].before[k].order

----------------------------------------------------------------------------
(* Which handler serves a reorder request: claim C27 *)

\* C27: a PATCH /jobs/reorder request sent to the worker is served by the
\* bulk-reorder resolver: never by patch-job, and with the answers of
\* bulk-reorder (400 for a payload that is not a non-empty array when the
\* failure trial passes).
C27_ReorderDispatch ==
  (lastCall.via = "wire" /\ lastCall.kind = "reorder")
    => /\ lastCall.servedBy = "reorderJobs"
       /\ (/\ ~lastCall.simulateError
           /\ lastCall.body.kind = "orderedJobs"
           /\ ~lastCall.body.isArray) => lastCall.status = 400

----------------------------------------------------------------------------
(* The committed view against list-jobs: claim C28 *)

\* the latest reorder intent was for the page that is selected and loaded,
\* its call has been resolved and nothing is in flight
LatestReorderResolved(i) ==
  /\ i = Len(reorderCalls)
  /\ reorderCalls[i].state \in Settled
  /\ activeJob = 0
  /\ jobFetches = {}
  /\ filters.page = reorderCalls[i].page
  /\ pagination.page = reorderCalls[i].page

----------------------------------------------------------------------------
(* A drag that ends without a drop target: claim C29 *)

\* the latest drag session previewed the card over a stage and ended with no
\* drop target: over was null, or an id that is neither stage nor card
PreviewedNoDrop ==
  /\ session.ended
  /\ session.preview # None
  /\ session.target = None
  /\ activeCandidate = 0

\* C29: after a drag session that previewed candidate c over another stage
\* and ended without a drop target, c is rendered in the stage it had at drag
\* start; and if no call is in flight every candidate is rendered in its
\* stored stage.
C29_NoDropRestoresStart ==
  PreviewedNoDrop
    => /\ candidates[session.cand] = session.start
       /\ (\A i \in DOMAIN stageCalls : stageCalls[i].state \in Settled)
            => \A c \in DOMAIN candidates : candidates[c] = dbCandidates[c]

----------------------------------------------------------------------------
(* A rollback after a newer load: claim C30 *)

\* the rendered list is the list-jobs answer for the selected filters and the
\* loaded page, and no load is in flight
RenderedIsLoaded ==
  /\ jobFetches = {}
  /\ ~jobsLoading
  /\ jobs = ListJobs(dbJobs, filters.status, pagination.page, PageSize).jobs

\* C30: when the call of a reorder intent fails after the rendered list was
\* replaced by a newer list-jobs answer (the rendered list is that answer and
\* is not the list the intent started from), the rollback leaves the rendered
\* list as it is.
C30_RollbackKeepsNewerLoad ==
  [][\A i \in DOMAIN reorderCalls :
       (/\ reorderCalls[i].state = "err"
        /\ reorderCalls'[i].state = "rolledback"
        /\ RenderedIsLoaded
        /\ jobs # reorderCalls[i].before)
         => jobs' = jobs]_vars

====
